---------------------------- MODULE Spec2Model ----------------------------
(***************************************************************************)
(* Test Run Orchestrator of the desktop shell                              *)
(* (apps/desktop/src-tauri/src/lib.rs).                                    *)
(*                                                                         *)
(* Specifications of this module:                                          *)
(*   Spec          run_full_test_suite / cancel_full_test_suite / the      *)
(*                 drain task, interleaved at the granularity of the       *)
(*                 mutex critical sections and the I/O calls;              *)
(*   StreamSpec    Spec with longer and more varied process streams;       *)
(*   KillSpec      Spec with two concurrent cancels;                       *)
(*   FairSpec      Next with the fairness of the async runtime;            *)
(*   SanitizeSpec  sanitize_line applied to bounded byte chunks;           *)
(*   ClassifySpec  classify_level applied to bounded messages;             *)
(*   LocateSpec    the loop of locate_workspace_dir over bounded trees.    *)
(*                                                                         *)
(* Text is a sequence of Unicode scalar values (a Rust String), a chunk is *)
(* a sequence of bytes (a Vec<u8>), an Option is a set with at most one    *)
(* element.                                                                *)
(***************************************************************************)
EXTENDS Integers, Sequences, FiniteSets, TLC

VARIABLES
    \* ---- TestRunnerState and the commands (Spec) ----
    child,        \* Option<CommandChild>: the slot behind the mutex
    guardHolder,  \* Option<run call>: who holds the MutexGuard across steps
    rpc,          \* run_full_test_suite call -> position
    rret,         \* run_full_test_suite call -> returned value
    spawned,      \* run_full_test_suite call -> command.spawn() succeeded
    dpc,          \* drain task of a run -> position
    cur,          \* drain task of a run -> the CommandEvent being matched
    stream,       \* rx of a run -> "open" | "errored" | "closed"
    sent,         \* number of events the streams delivered before a Terminated
    emitted,      \* run -> payloads passed to window.emit, in order
    lastEmit,     \* what the latest window.emit returned
    cpc,          \* cancel_full_test_suite call -> position
    ctaken,       \* cancel_full_test_suite call -> what guard.take() gave
    cret,         \* cancel_full_test_suite call -> returned value
    kills,        \* handle -> number of kill() calls on it
    received,     \* drain task of a run -> events rx.recv() yielded, in order
    env,          \* what the UI and the processes may do (fixed by Init)
    \* ---- sanitize_line (SanitizeSpec) ----
    sanPc, sanIn, sanOut,
    \* ---- classify_level (ClassifySpec) ----
    clsPc, clsSource, clsMessage, clsOut,
    \* ---- locate_workspace_dir (LocateSpec) ----
    locPc, fsParent, fsPackage, cwd, resourceParent, candidates, locIdx,
    candidate, visited, locResult, locSteps

mainVars == <<child, guardHolder, rpc, rret, spawned, dpc, cur, stream, sent,
              emitted, lastEmit, cpc, ctaken, cret, kills, received,
              env>>
sanVars == <<sanPc, sanIn, sanOut>>
clsVars == <<clsPc, clsSource, clsMessage, clsOut>>
locVars == <<locPc, fsParent, fsPackage, cwd, resourceParent, candidates,
             locIdx, candidate, visited, locResult, locSteps>>
vars == <<mainVars, sanVars, clsVars, locVars>>

-----------------------------------------------------------------------------
(* Option<T> *)
None == {}
Some(x) == {x}
Unwrap(o) == CHOOSE x \in o : TRUE

(* Bounded sequences over a set *)
SeqsUpTo(S, n) == UNION {[1..k -> S] : k \in 0..n}

-----------------------------------------------------------------------------
(* sanitize_line                                                           *)

CR == 13
LF == 10

\* Number of bytes of the UTF-8 sequence a lead byte opens; 0 when the byte
\* cannot open one (core::str::from_utf8).
Utf8Width(b) ==
    IF b < 128 THEN 1
    ELSE IF b >= 194 /\ b <= 223 THEN 2
    ELSE IF b >= 224 /\ b <= 239 THEN 3
    ELSE IF b >= 240 /\ b <= 244 THEN 4
    ELSE 0

\* The range the byte after the lead byte must lie in.
Utf8SecondOk(lead, b) ==
    IF lead = 224 THEN b >= 160 /\ b <= 191
    ELSE IF lead = 237 THEN b >= 128 /\ b <= 159
    ELSE IF lead = 240 THEN b >= 144 /\ b <= 191
    ELSE IF lead = 244 THEN b >= 128 /\ b <= 143
    ELSE b >= 128 /\ b <= 191

Utf8Scalar(bytes, w) ==
    IF w = 1 THEN bytes[1]
    ELSE IF w = 2 THEN (bytes[1] - 192) * 64 + (bytes[2] - 128)
    ELSE IF w = 3 THEN (bytes[1] - 224) * 4096 + (bytes[2] - 128) * 64
                       + (bytes[3] - 128)
    ELSE (bytes[1] - 240) * 262144 + (bytes[2] - 128) * 4096
         + (bytes[3] - 128) * 64 + (bytes[4] - 128)

\* String::from_utf8(bytes).ok(): the text, or None on invalid UTF-8.
RECURSIVE from_utf8(_)
from_utf8(bytes) ==
    IF bytes = <<>> THEN Some(<<>>)
    ELSE LET w == Utf8Width(bytes[1]) IN
         IF w = 0 \/ Len(bytes) < w THEN None
         ELSE IF w >= 2 /\ ~Utf8SecondOk(bytes[1], bytes[2]) THEN None
         ELSE IF \E i \in 3..w : bytes[i] < 128 \/ bytes[i] > 191 THEN None
         ELSE LET rest == from_utf8(SubSeq(bytes, w + 1, Len(bytes))) IN
              IF rest = None THEN None
              ELSE Some(<<Utf8Scalar(bytes, w)>> \o Unwrap(rest))

\* A trim that strips one line terminator only ("\r\n", "\n" or "\r").
trim_end_matches_once(text) ==
    IF text = <<>> THEN text
    ELSE IF text[Len(text)] = LF
         THEN IF Len(text) >= 2 /\ text[Len(text) - 1] = CR
              THEN SubSeq(text, 1, Len(text) - 2)
              ELSE SubSeq(text, 1, Len(text) - 1)
         ELSE IF text[Len(text)] = CR
              THEN SubSeq(text, 1, Len(text) - 1)
              ELSE text

\* str::trim_end_matches(['\r', '\n']): strips every trailing CR or LF.
RECURSIVE trim_end_matches(_)
trim_end_matches(text) ==
    IF text = <<>> THEN text
    ELSE IF text[Len(text)] \in {CR, LF}
         THEN trim_end_matches(SubSeq(text, 1, Len(text) - 1))
         ELSE text

sanitize_line(bytes) ==
    LET text == from_utf8(bytes) IN
    IF text = None THEN None
    ELSE LET cleaned == trim_end_matches(Unwrap(text)) IN
         IF cleaned = <<>> THEN None ELSE Some(cleaned)

-----------------------------------------------------------------------------
(* classify_level                                                          *)

\* u8/char::to_ascii_uppercase
AsciiUpperChar(c) == IF c >= 97 /\ c <= 122 THEN c - 32 ELSE c
to_ascii_uppercase(text) == [i \in 1..Len(text) |-> AsciiUpperChar(text[i])]

\* str::contains(&str)
contains(text, pat) ==
    \E i \in 1..(Len(text) - Len(pat) + 1) :
        SubSeq(text, i, i + Len(pat) - 1) = pat

FAIL == <<70, 65, 73, 76>>
ERROR == <<69, 82, 82, 79, 82>>
WARN == <<87, 65, 82, 78>>

\* The branches with the WARN test first.
classify_level_warn_first(source, message) ==
    IF source = "Stderr" THEN "Error"
    ELSE LET upper == to_ascii_uppercase(message) IN
         IF contains(upper, WARN) THEN "Warn"
         ELSE IF contains(upper, FAIL) \/ contains(upper, ERROR) THEN "Error"
         ELSE "Info"

classify_level(source, message) ==
    IF source = "Stderr" THEN "Error"
    ELSE LET upper == to_ascii_uppercase(message) IN
         IF contains(upper, FAIL) \/ contains(upper, ERROR) THEN "Error"
         ELSE IF contains(upper, WARN) THEN "Warn"
         ELSE "Info"

-----------------------------------------------------------------------------
(* locate_workspace_dir                                                    *)

NumDirs == 4
Dirs == 1..NumDirs

\* PathBuf::parent: lexical, so a parent is a strictly shorter path; the
\* directories are numbered so that a parent has the smaller number.
ParentFns ==
    [Dirs -> {None} \cup {Some(p) : p \in Dirs}]
IsTree(par) == \A d \in Dirs : \A p \in par[d] : p < d

parent(d) == fsParent[d]

\* A probe that looks for the marker one level up.
package_is_file_in_parent(d) == \E p \in parent(d) : p \in fsPackage

\* candidate.join("package.json").is_file()
package_is_file(d) == d \in fsPackage

NotFoundError == <<"Err", "Unable to locate workspace directory for npm">>
OkDir(d) == <<"Ok", d>>

LocUnchangedFs == UNCHANGED <<fsParent, fsPackage, cwd, resourceParent>>

\* lines 130-140: the candidates vector and the empty visited set
LocCollect ==
    /\ locPc = "collect"
    /\ candidates' = (IF cwd = None THEN <<>> ELSE <<Unwrap(cwd)>>)
                     \o (IF resourceParent = None THEN <<>>
                         ELSE <<Unwrap(resourceParent)>>)
    /\ visited' = {}
    /\ locIdx' = 1
    /\ locPc' = "for"
    /\ LocUnchangedFs
    /\ UNCHANGED <<candidate, locResult, locSteps>>

\* line 142: the for loop takes the next candidate, or falls through to
\* line 166
LocFor ==
    /\ locPc = "for"
    /\ IF locIdx <= Len(candidates)
       THEN /\ candidate' = Some(candidates[locIdx])
            /\ locIdx' = locIdx + 1
            /\ locPc' = "loop"
            /\ UNCHANGED locResult
       ELSE /\ locResult' = Some(NotFoundError)
            /\ locPc' = "done"
            /\ UNCHANGED <<candidate, locIdx>>
    /\ locSteps' = locSteps + 1
    /\ LocUnchangedFs
    /\ UNCHANGED <<candidates, visited>>

\* lines 143-163: one iteration of the inner loop
LocLoop ==
    /\ locPc = "loop"
    /\ LET c == Unwrap(candidate) IN
       IF c \in visited
       THEN \* visited.insert returned false
            /\ IF parent(c) /= None
               THEN candidate' = parent(c) /\ locPc' = "loop"
               ELSE candidate' = candidate /\ locPc' = "for"
            /\ UNCHANGED <<visited, locResult>>
       ELSE /\ visited' = visited \cup {c}
            /\ IF package_is_file(c)
               THEN /\ locResult' = Some(OkDir(c))
                    /\ locPc' = "done"
                    /\ UNCHANGED candidate
               ELSE /\ IF parent(c) /= None
                       THEN candidate' = parent(c) /\ locPc' = "loop"
                       ELSE candidate' = candidate /\ locPc' = "for"
                    /\ UNCHANGED locResult
    /\ locSteps' = locSteps + 1
    /\ LocUnchangedFs
    /\ UNCHANGED <<candidates, locIdx>>

LocOff ==
    /\ locPc = "off"
    /\ fsParent = [d \in Dirs |-> None]
    /\ fsPackage = {}
    /\ cwd = None
    /\ resourceParent = None
    /\ candidates = <<>>
    /\ locIdx = 1
    /\ candidate = None
    /\ visited = {}
    /\ locResult = None
    /\ locSteps = 0

-----------------------------------------------------------------------------
(* Inputs of the pure functions                                            *)

MaxChunkLen == 4
\* LF, CR, 'a', a continuation byte, a two-byte lead, an invalid byte
SanBytes == {LF, CR, 97, 133, 194, 255}

SanOff == sanPc = "off" /\ sanIn = <<>> /\ sanOut = None

SanitizeCall ==
    /\ sanPc = "call"
    /\ sanOut' = sanitize_line(sanIn)
    /\ sanPc' = "ret"
    /\ UNCHANGED sanIn

MaxFrags == 3
\* Pieces of log lines: the three keywords in upper, lower and mixed case,
\* broken keywords, filler, and U+0131 (dotless i), which is no ASCII letter.
ClsFragments ==
    { FAIL, <<102, 97, 105, 108>>, <<70, 97, 73, 108>>,
      ERROR, <<101, 114, 114, 111, 114>>, <<69, 114, 82, 111, 82>>,
      WARN, <<119, 97, 114, 110>>, <<87, 97, 82, 110>>,
      <<70, 65>>, <<73, 76>>, <<119, 97, 114>>, <<78>>,
      <<120>>, <<32>>, <<102, 97, 305, 108>> }

RECURSIVE Flatten(_)
Flatten(ss) == IF ss = <<>> THEN <<>> ELSE ss[1] \o Flatten(Tail(ss))

ClsOff ==
    clsPc = "off" /\ clsSource = "Stdout" /\ clsMessage = <<>> /\ clsOut = "-"

ClassifyCall ==
    /\ clsPc = "call"
    /\ clsOut' = classify_level(clsSource, clsMessage)
    /\ clsPc' = "ret"
    /\ UNCHANGED <<clsSource, clsMessage>>

-----------------------------------------------------------------------------
(* run_full_test_suite, its drain task, cancel_full_test_suite             *)

\* Spec: three run calls race with one cancel; the streams are short and
\* carry one kind of chunk.
MaxRuns == 3      \* calls of run_full_test_suite
MaxCancels == 1   \* calls of cancel_full_test_suite
MaxEvents == 1    \* events the streams deliver, Terminated not counted
\* StreamSpec: two run calls and one cancel; the streams are longer and
\* carry every kind of chunk, every exit code, and emits may fail.
\* FairSpec: the same calls and stream lengths, one kind of chunk.
StreamRuns == 2
StreamCancels == 1
StreamEvents == 2
\* KillSpec: two run calls and two cancels; short streams, one kind of chunk.
KillRuns == 2
KillCancels == 2
KillEvents == 1

Max(a, b) == IF a >= b THEN a ELSE b
Runs == 1..Max(Max(MaxRuns, StreamRuns), KillRuns)
Cancels == 1..Max(Max(MaxCancels, StreamCancels), KillCancels)

pureVars == <<sanVars, clsVars, locVars, env>>

\* Result<(), String>
Ok == "Ok"
AlreadyRunning == "Test suite is already running"
WorkspaceNotFound == "Unable to locate workspace directory for npm"
SpawnFailed == "spawn: os error"
KillFailed == "kill: os error"

\* TestRunPayload
Started ==
    [kind |-> "Started", level |-> "-", message |-> <<>>, source |-> "-",
     code |-> None]
Log(level, message, source) ==
    [kind |-> "Log", level |-> level, message |-> message,
     source |-> source, code |-> None]
Terminated(code) ==
    [kind |-> "Terminated", level |-> "-", message |-> <<>>, source |-> "-",
     code |-> code]
Error(message) ==
    [kind |-> "Error", level |-> "-", message |-> message, source |-> "-",
     code |-> None]

\* CommandEvent values a process stream delivers
Event(kind, data, code) == [kind |-> kind, data |-> data, code |-> code]
NoEvent == Event("-", <<>>, None)
\* a CommandEvent of a kind the match does not name (#[non_exhaustive])
OtherEvent == Event("Other", <<>>, None)
\* "WARN: slow test\n"
ChunkWarn ==
    <<87, 65, 82, 78, 58, 32, 115, 108, 111, 119, 32, 116, 101, 115, 116, LF>>
ChunkBlank == <<CR, LF>>
\* a chunk that is no UTF-8
ChunkBad == <<255>>
\* "io"
IoMessage == <<105, 111>>
OutputEvents ==
    {Event(k, c, None) : k \in {"Stdout", "Stderr"}, c \in env.chunks}
\* TerminatedPayload.code is None when a signal ended the process
TerminalEvents ==
    {Event("Error", IoMessage, None)}
    \cup {Event("Terminated", <<>>, c) : c \in env.codes}

EnvSpec ==
    [runs |-> MaxRuns, cancels |-> MaxCancels, events |-> MaxEvents,
     chunks |-> {ChunkWarn}, codes |-> {Some(0)}, emits |-> {"Ok"}]
EnvStream ==
    [runs |-> StreamRuns, cancels |-> StreamCancels, events |-> StreamEvents,
     chunks |-> {ChunkWarn, ChunkBlank, ChunkBad},
     codes |-> {None, Some(0), Some(1)}, emits |-> {"Ok", "Err"}]
EnvFair ==
    [runs |-> StreamRuns, cancels |-> StreamCancels, events |-> StreamEvents,
     chunks |-> {ChunkWarn}, codes |-> {Some(0)}, emits |-> {"Ok", "Err"}]
EnvKill ==
    [runs |-> KillRuns, cancels |-> KillCancels, events |-> KillEvents,
     chunks |-> {ChunkWarn}, codes |-> {Some(0)}, emits |-> {"Ok"}]
EnvOff ==
    [runs |-> 0, cancels |-> 0, events |-> 0, chunks |-> {}, codes |-> {},
     emits |-> {}]

MainInit ==
    /\ child = None
    /\ guardHolder = None
    /\ rpc = [r \in Runs |-> "idle"]
    /\ rret = [r \in Runs |-> "-"]
    /\ spawned = [r \in Runs |-> FALSE]
    /\ dpc = [r \in Runs |-> "none"]
    /\ cur = [r \in Runs |-> NoEvent]
    /\ stream = [r \in Runs |-> "none"]
    /\ sent = 0
    /\ emitted = [r \in Runs |-> <<>>]
    /\ lastEmit = "-"
    /\ cpc = [k \in Cancels |-> "idle"]
    /\ ctaken = [k \in Cancels |-> None]
    /\ cret = [k \in Cancels |-> "-"]
    /\ kills = [r \in Runs |-> 0]
    /\ received = [r \in Runs |-> <<>>]

\* let _ = window.emit(TEST_RUN_EVENT, &payload): the Result is dropped
Emit(payload, r) ==
    /\ emitted' = [emitted EXCEPT ![r] = Append(@, payload)]
    /\ lastEmit' \in env.emits

\* lines 228-229: locate_workspace_dir(&app)?  (its result is an input here;
\* the function itself is LocateSpec)
RunLocate(r) ==
    /\ rpc[r] = "idle"
    /\ r <= env.runs
    /\ \A q \in Runs : q < r => rpc[q] /= "idle"
    /\ \E found \in BOOLEAN :
          IF found
          THEN rpc' = [rpc EXCEPT ![r] = "lock"] /\ UNCHANGED rret
          ELSE /\ rpc' = [rpc EXCEPT ![r] = "done"]
               /\ rret' = [rret EXCEPT ![r] = WorkspaceNotFound]
    /\ UNCHANGED <<child, guardHolder, spawned, dpc, cur, stream, sent,
                   emitted, lastEmit, cpc, ctaken, cret, kills, received>>
    /\ UNCHANGED pureVars

\* A lock without the is_some() test.
RunLockCheckUnchecked(r) ==
    /\ rpc[r] = "lock"
    /\ guardHolder = None
    /\ guardHolder' = Some(r)
    /\ rpc' = [rpc EXCEPT ![r] = "spawn"]
    /\ UNCHANGED <<child, rret, spawned, dpc, cur, stream, sent, emitted,
                   lastEmit, cpc, ctaken, cret, kills, received>>
    /\ UNCHANGED pureVars

\* A check whose guard is dropped before the spawn.
RunLockCheckReleased(r) ==
    /\ rpc[r] = "lock"
    /\ guardHolder = None
    /\ IF child /= None
       THEN /\ rret' = [rret EXCEPT ![r] = AlreadyRunning]
            /\ rpc' = [rpc EXCEPT ![r] = "done"]
       ELSE /\ rpc' = [rpc EXCEPT ![r] = "spawn"]
            /\ UNCHANGED rret
    /\ UNCHANGED <<child, guardHolder, spawned, dpc, cur, stream, sent,
                   emitted, lastEmit, cpc, ctaken, cret, kills, received>>
    /\ UNCHANGED pureVars

\* lines 239-245: state.child.lock(), then the is_some() test
RunLockCheck(r) ==
    /\ rpc[r] = "lock"
    /\ guardHolder = None
    /\ IF child /= None
       THEN /\ rret' = [rret EXCEPT ![r] = AlreadyRunning]
            /\ rpc' = [rpc EXCEPT ![r] = "done"]
            /\ UNCHANGED guardHolder
       ELSE /\ guardHolder' = Some(r)
            /\ rpc' = [rpc EXCEPT ![r] = "spawn"]
            /\ UNCHANGED rret
    /\ UNCHANGED <<child, spawned, dpc, cur, stream, sent, emitted, lastEmit,
                   cpc, ctaken, cret, kills, received>>
    /\ UNCHANGED pureVars

\* A spawn whose failure path has already announced the run.
RunSpawnAnnounced(r) ==
    /\ rpc[r] = "spawn"
    /\ \E ok \in BOOLEAN :
          IF ok
          THEN /\ spawned' = [spawned EXCEPT ![r] = TRUE]
               /\ stream' = [stream EXCEPT ![r] = "open"]
               /\ rpc' = [rpc EXCEPT ![r] = "store"]
               /\ UNCHANGED <<rret, guardHolder, emitted, lastEmit>>
          ELSE /\ rret' = [rret EXCEPT ![r] = SpawnFailed]
               /\ rpc' = [rpc EXCEPT ![r] = "done"]
               /\ guardHolder' = None
               /\ Emit(Started, r)
               /\ UNCHANGED <<spawned, stream>>
    /\ UNCHANGED <<child, dpc, cur, sent, cpc, ctaken, cret, kills, received>>
    /\ UNCHANGED pureVars

\* line 247: command.spawn().map_err(..)?, with the guard still held
RunSpawn(r) ==
    /\ rpc[r] = "spawn"
    /\ \E ok \in BOOLEAN :
          IF ok
          THEN /\ spawned' = [spawned EXCEPT ![r] = TRUE]
               /\ stream' = [stream EXCEPT ![r] = "open"]
               /\ rpc' = [rpc EXCEPT ![r] = "store"]
               /\ UNCHANGED <<rret, guardHolder>>
          ELSE /\ rret' = [rret EXCEPT ![r] = SpawnFailed]
               /\ rpc' = [rpc EXCEPT ![r] = "done"]
               /\ guardHolder' = None
               /\ UNCHANGED <<spawned, stream>>
    /\ UNCHANGED <<child, dpc, cur, sent, emitted, lastEmit, cpc, ctaken,
                   cret, kills, received>>
    /\ UNCHANGED pureVars

\* lines 248-249: *guard = Some(child); drop(guard)
RunStore(r) ==
    /\ rpc[r] = "store"
    /\ child' = Some(r)
    /\ guardHolder' = None
    /\ rpc' = [rpc EXCEPT ![r] = "emit"]
    /\ UNCHANGED <<rret, spawned, dpc, cur, stream, sent, emitted, lastEmit,
                   cpc, ctaken, cret, kills, received>>
    /\ UNCHANGED pureVars

\* An emit of Started whose failure is returned to the caller.
RunEmitStartedChecked(r) ==
    /\ rpc[r] = "emit"
    /\ Emit(Started, r)
    /\ IF lastEmit' = "Err"
       THEN /\ rpc' = [rpc EXCEPT ![r] = "done"]
            /\ rret' = [rret EXCEPT ![r] = "emit failed"]
       ELSE /\ rpc' = [rpc EXCEPT ![r] = "task"]
            /\ UNCHANGED rret
    /\ UNCHANGED <<child, guardHolder, spawned, dpc, cur, stream, sent, cpc,
                   ctaken, cret, kills, received>>
    /\ UNCHANGED pureVars

\* line 251: emit Started
RunEmitStarted(r) ==
    /\ rpc[r] = "emit"
    /\ Emit(Started, r)
    /\ rpc' = [rpc EXCEPT ![r] = "task"]
    /\ UNCHANGED <<child, guardHolder, rret, spawned, dpc, cur, stream, sent,
                   cpc, ctaken, cret, kills, received>>
    /\ UNCHANGED pureVars

\* A return that forgets to start the drain task.
RunSpawnTaskForgotten(r) ==
    /\ rpc[r] = "task"
    /\ rret' = [rret EXCEPT ![r] = Ok]
    /\ rpc' = [rpc EXCEPT ![r] = "done"]
    /\ UNCHANGED <<child, guardHolder, spawned, dpc, cur, stream, sent,
                   emitted, lastEmit, cpc, ctaken, cret, kills, received>>
    /\ UNCHANGED pureVars

\* lines 253-255 and 299: spawn the drain task, return Ok(())
RunSpawnTask(r) ==
    /\ rpc[r] = "task"
    /\ dpc' = [dpc EXCEPT ![r] = "recv"]
    /\ rret' = [rret EXCEPT ![r] = Ok]
    /\ rpc' = [rpc EXCEPT ![r] = "done"]
    /\ UNCHANGED <<child, guardHolder, spawned, cur, stream, sent, emitted,
                   lastEmit, cpc, ctaken, cret, kills, received>>
    /\ UNCHANGED pureVars

\* The drain task (lines 255-297). A step runs from one suspension point
\* (rx.recv().await, lock()) to the next. The process stream delivers output
\* chunks, Error and unknown kinds in any order; Terminated is its last
\* event, an Error is not.

\* An output arm that labels every line as Stdout.
DrainOutputUnlabelled(r) ==
    /\ dpc[r] = "recv"
    /\ stream[r] \in {"open", "errored"}
    /\ sent < env.events
    /\ \E ev \in OutputEvents :
          /\ received' = [received EXCEPT ![r] = Append(@, ev)]
          /\ LET line == sanitize_line(ev.data) IN
             IF line /= None
             THEN Emit(Log(classify_level("Stdout", Unwrap(line)),
                           Unwrap(line), "Stdout"), r)
             ELSE UNCHANGED <<emitted, lastEmit>>
    /\ sent' = sent + 1
    /\ UNCHANGED <<child, guardHolder, rpc, rret, spawned, dpc, cur, stream,
                   cpc, ctaken, cret, kills>>
    /\ UNCHANGED pureVars

\* lines 256-279: recv yields a Stdout or Stderr chunk; the arm runs and the
\* loop returns to recv
DrainOutput(r) ==
    /\ dpc[r] = "recv"
    /\ stream[r] \in {"open", "errored"}
    /\ sent < env.events
    /\ \E ev \in OutputEvents :
          /\ received' = [received EXCEPT ![r] = Append(@, ev)]
          /\ LET line == sanitize_line(ev.data) IN
             IF line /= None
             THEN Emit(Log(classify_level(ev.kind, Unwrap(line)),
                           Unwrap(line), ev.kind), r)
             ELSE UNCHANGED <<emitted, lastEmit>>
    /\ sent' = sent + 1
    /\ UNCHANGED <<child, guardHolder, rpc, rret, spawned, dpc, cur, stream,
                   cpc, ctaken, cret, kills>>
    /\ UNCHANGED pureVars

\* lines 256 and 294: recv yields an event of another kind; _ => {}
DrainIgnore(r) ==
    /\ dpc[r] = "recv"
    /\ stream[r] \in {"open", "errored"}
    /\ sent < env.events
    /\ received' = [received EXCEPT ![r] = Append(@, OtherEvent)]
    /\ sent' = sent + 1
    /\ UNCHANGED <<child, guardHolder, rpc, rret, spawned, dpc, cur, stream,
                   emitted, lastEmit, cpc, ctaken, cret, kills>>
    /\ UNCHANGED pureVars

\* lines 256, 280-281 and 287-288: recv yields Terminated or Error; the arm
\* reaches runner_state.lock()
DrainTerminal(r) ==
    /\ dpc[r] = "recv"
    /\ stream[r] \in {"open", "errored"}
    /\ \E ev \in TerminalEvents :
          /\ ev.kind = "Error" => sent < env.events
          /\ cur' = [cur EXCEPT ![r] = ev]
          /\ received' = [received EXCEPT ![r] = Append(@, ev)]
          /\ stream' = [stream EXCEPT ![r] =
                            IF ev.kind = "Terminated" THEN "closed"
                            ELSE "errored"]
          /\ sent' = (IF ev.kind = "Error" THEN sent + 1 ELSE sent)
    /\ dpc' = [dpc EXCEPT ![r] = "lock"]
    /\ UNCHANGED <<child, guardHolder, rpc, rret, spawned, emitted, lastEmit,
                   cpc, ctaken, cret, kills>>
    /\ UNCHANGED pureVars

\* line 256: recv yields None (every sender is gone): the task ends. The
\* senders go after Terminated, or after an Error with no Terminated to
\* follow.
DrainEnd(r) ==
    /\ dpc[r] = "recv"
    /\ stream[r] \in {"closed", "errored"}
    /\ dpc' = [dpc EXCEPT ![r] = "ended"]
    /\ stream' = [stream EXCEPT ![r] = "closed"]
    /\ UNCHANGED <<child, guardHolder, rpc, rret, spawned, cur, sent,
                   emitted, lastEmit, cpc, ctaken, cret, kills, received>>
    /\ UNCHANGED pureVars

\* A take that leaves alone a handle that is not this run's.
DrainTakeOwn(r) ==
    /\ dpc[r] = "lock"
    /\ guardHolder = None
    /\ child' = (IF child = Some(r) THEN None ELSE child)
    /\ dpc' = [dpc EXCEPT ![r] = "emit"]
    /\ UNCHANGED <<guardHolder, rpc, rret, spawned, cur, stream, sent,
                   emitted, lastEmit, cpc, ctaken, cret, kills, received>>
    /\ UNCHANGED pureVars

\* A Terminated or Error arm that leaves the handle in the slot.
DrainKeep(r) ==
    /\ dpc[r] = "lock"
    /\ guardHolder = None
    /\ dpc' = [dpc EXCEPT ![r] = "emit"]
    /\ UNCHANGED <<child, guardHolder, rpc, rret, spawned, cur, stream, sent,
                   emitted, lastEmit, cpc, ctaken, cret, kills, received>>
    /\ UNCHANGED pureVars

\* lines 281-283 and 288-290: the lock is acquired, guard.take() empties the
\* slot whatever handle it holds, the guard is dropped
DrainTake(r) ==
    /\ dpc[r] = "lock"
    /\ guardHolder = None
    /\ child' = None
    /\ dpc' = [dpc EXCEPT ![r] = "emit"]
    /\ UNCHANGED <<guardHolder, rpc, rret, spawned, cur, stream, sent,
                   emitted, lastEmit, cpc, ctaken, cret, kills, received>>
    /\ UNCHANGED pureVars

\* lines 284-285 and 291-292: emit the terminal payload; there is no break,
\* the loop returns to recv
DrainEmitTerminal(r) ==
    /\ dpc[r] = "emit"
    /\ Emit(IF cur[r].kind = "Terminated" THEN Terminated(cur[r].code)
            ELSE Error(cur[r].data), r)
    /\ dpc' = [dpc EXCEPT ![r] = "recv"]
    /\ cur' = [cur EXCEPT ![r] = NoEvent]
    /\ UNCHANGED <<child, guardHolder, rpc, rret, spawned, stream, sent, cpc,
                   ctaken, cret, kills, received>>
    /\ UNCHANGED pureVars

\* A cancel that reads the handle and leaves it in the slot.
CancelTakePeek(k) ==
    /\ cpc[k] = "idle"
    /\ k <= env.cancels
    /\ \A j \in Cancels : j < k => cpc[j] /= "idle"
    /\ guardHolder = None
    /\ ctaken' = [ctaken EXCEPT ![k] = child]
    /\ cpc' = [cpc EXCEPT ![k] = "taken"]
    /\ UNCHANGED <<child, guardHolder, rpc, rret, spawned, dpc, cur, stream,
                   sent, emitted, lastEmit, cret, kills, received>>
    /\ UNCHANGED pureVars

\* lines 304-310: lock, guard.take(), unlock
CancelTake(k) ==
    /\ cpc[k] = "idle"
    /\ k <= env.cancels
    /\ \A j \in Cancels : j < k => cpc[j] /= "idle"
    /\ guardHolder = None
    /\ ctaken' = [ctaken EXCEPT ![k] = child]
    /\ child' = None
    /\ cpc' = [cpc EXCEPT ![k] = "taken"]
    /\ UNCHANGED <<guardHolder, rpc, rret, spawned, dpc, cur, stream, sent,
                   emitted, lastEmit, cret, kills, received>>
    /\ UNCHANGED pureVars

\* A kill whose failure path puts the handle back into the slot.
CancelKillRestore(k) ==
    /\ cpc[k] = "taken"
    /\ ctaken[k] /= None
    /\ kills' = [kills EXCEPT ![Unwrap(ctaken[k])] = @ + 1]
    /\ \E ok \in BOOLEAN :
          /\ cret' = [cret EXCEPT ![k] = IF ok THEN Ok ELSE KillFailed]
          /\ child' = (IF ok THEN child ELSE ctaken[k])
    /\ cpc' = [cpc EXCEPT ![k] = "done"]
    /\ UNCHANGED <<guardHolder, rpc, rret, spawned, dpc, cur, stream, sent,
                   emitted, lastEmit, ctaken, received>>
    /\ UNCHANGED pureVars

\* lines 312-314: child.kill().map_err(..)?, then Ok(())
CancelKill(k) ==
    /\ cpc[k] = "taken"
    /\ ctaken[k] /= None
    /\ kills' = [kills EXCEPT ![Unwrap(ctaken[k])] = @ + 1]
    /\ \E ok \in BOOLEAN :
          cret' = [cret EXCEPT ![k] = IF ok THEN Ok ELSE KillFailed]
    /\ cpc' = [cpc EXCEPT ![k] = "done"]
    /\ UNCHANGED <<child, guardHolder, rpc, rret, spawned, dpc, cur, stream,
                   sent, emitted, lastEmit, ctaken, received>>
    /\ UNCHANGED pureVars

\* A cancel that reports an error when there was nothing to cancel.
CancelNoopError(k) ==
    /\ cpc[k] = "taken"
    /\ ctaken[k] = None
    /\ cret' = [cret EXCEPT ![k] = KillFailed]
    /\ cpc' = [cpc EXCEPT ![k] = "done"]
    /\ UNCHANGED <<child, guardHolder, rpc, rret, spawned, dpc, cur, stream,
                   sent, emitted, lastEmit, ctaken, kills, received>>
    /\ UNCHANGED pureVars

\* lines 312 and 316: no handle was taken, Ok(())
CancelNoop(k) ==
    /\ cpc[k] = "taken"
    /\ ctaken[k] = None
    /\ cret' = [cret EXCEPT ![k] = Ok]
    /\ cpc' = [cpc EXCEPT ![k] = "done"]
    /\ UNCHANGED <<child, guardHolder, rpc, rret, spawned, dpc, cur, stream,
                   sent, emitted, lastEmit, ctaken, kills, received>>
    /\ UNCHANGED pureVars

-----------------------------------------------------------------------------
(* Specifications                                                          *)

Init == MainInit /\ env = EnvSpec /\ SanOff /\ ClsOff /\ LocOff

Next ==
    \/ \E r \in Runs : RunLocate(r)
    \/ \E r \in Runs : RunLockCheck(r)
    \/ \E r \in Runs : RunSpawn(r)
    \/ \E r \in Runs : RunStore(r)
    \/ \E r \in Runs : RunEmitStarted(r)
    \/ \E r \in Runs : RunSpawnTask(r)
    \/ \E r \in Runs : DrainOutput(r)
    \/ \E r \in Runs : DrainIgnore(r)
    \/ \E r \in Runs : DrainTerminal(r)
    \/ \E r \in Runs : DrainEnd(r)
    \/ \E r \in Runs : DrainTake(r)
    \/ \E r \in Runs : DrainEmitTerminal(r)
    \/ \E k \in Cancels : CancelTake(k)
    \/ \E k \in Cancels : CancelKill(k)
    \/ \E k \in Cancels : CancelNoop(k)

Spec == Init /\ [][Next]_vars

StreamInit == MainInit /\ env = EnvStream /\ SanOff /\ ClsOff /\ LocOff

StreamSpec == StreamInit /\ [][Next]_vars

SanitizeInit ==
    /\ MainInit /\ env = EnvOff /\ ClsOff /\ LocOff
    /\ sanPc = "call"
    /\ sanIn \in SeqsUpTo(SanBytes, MaxChunkLen)
    /\ sanOut = None

SanitizeNext == SanitizeCall /\ UNCHANGED <<mainVars, clsVars, locVars>>

SanitizeSpec == SanitizeInit /\ [][SanitizeNext]_vars

ClassifyInit ==
    /\ MainInit /\ env = EnvOff /\ SanOff /\ LocOff
    /\ clsPc = "call"
    /\ clsSource \in {"Stdout", "Stderr"}
    /\ \E fs \in SeqsUpTo(ClsFragments, MaxFrags) : clsMessage = Flatten(fs)
    /\ clsOut = "-"

ClassifyNext == ClassifyCall /\ UNCHANGED <<mainVars, sanVars, locVars>>

ClassifySpec == ClassifyInit /\ [][ClassifyNext]_vars

LocateInit ==
    /\ MainInit /\ env = EnvOff /\ SanOff /\ ClsOff
    /\ locPc = "collect"
    /\ fsParent \in {par \in ParentFns : IsTree(par)}
    /\ fsPackage \in SUBSET Dirs
    /\ cwd \in {None} \cup {Some(d) : d \in Dirs}
    /\ resourceParent \in {None} \cup {Some(d) : d \in Dirs}
    /\ candidates = <<>>
    /\ locIdx = 1
    /\ candidate = None
    /\ visited = {}
    /\ locResult = None
    /\ locSteps = 0

LocateNext ==
    \/ LocCollect /\ UNCHANGED <<mainVars, sanVars, clsVars>>
    \/ LocFor /\ UNCHANGED <<mainVars, sanVars, clsVars>>
    \/ LocLoop /\ UNCHANGED <<mainVars, sanVars, clsVars>>

LocateSpec == LocateInit /\ [][LocateNext]_vars

\* Fairness of the async runtime and of the process streams: a call that
\* can take its next step takes it, a drain task that can run runs, and an
\* open stream eventually delivers Terminated or Error.
Fairness ==
    \A r \in Runs :
        /\ WF_vars(RunLockCheck(r))
        /\ WF_vars(RunSpawn(r))
        /\ WF_vars(RunStore(r))
        /\ WF_vars(RunEmitStarted(r))
        /\ WF_vars(RunSpawnTask(r))
        /\ WF_vars(DrainTerminal(r))
        /\ WF_vars(DrainTake(r))
        /\ WF_vars(DrainEmitTerminal(r))

KillInit == MainInit /\ env = EnvKill /\ SanOff /\ ClsOff /\ LocOff

KillSpec == KillInit /\ [][Next]_vars

FairInit == MainInit /\ env = EnvFair /\ SanOff /\ ClsOff /\ LocOff

FairSpec == FairInit /\ [][Next]_vars /\ Fairness

-----------------------------------------------------------------------------
(* Vocabulary of the claims                                                *)

IsTerminal(payload) == payload.kind \in {"Terminated", "Error"}
TerminalCount(r) ==
    Cardinality({i \in 1..Len(emitted[r]) : IsTerminal(emitted[r][i])})

\* The run's handle was stored in the slot.
Accepted(r) ==
    rpc[r] \in {"emit", "task"} \/ (rpc[r] = "done" /\ rret[r] = Ok)
\* A cancel took the run's handle.
Cancelled(r) == \E k \in Cancels : ctaken[k] = Some(r)
\* The run's drain task ran the take of a Terminated or Error arm.
TerminalHandled(r) == dpc[r] = "emit" \/ TerminalCount(r) > 0
Active(r) == Accepted(r) /\ ~Cancelled(r) /\ ~TerminalHandled(r)

-----------------------------------------------------------------------------
(* C1. At most one run is active at any time: at most one accepted run has *)
(* neither been cancelled nor had a terminal process event handled.        *)
C1_AtMostOneActive == Cardinality({r \in Runs : Active(r)}) <= 1

C2_NoSideEffects(r) ==
    /\ child' = child
    /\ spawned' = spawned
    /\ emitted' = emitted
    /\ dpc' = dpc
    /\ kills' = kills

(* C2, as stated. Whenever a call of run_full_test_suite finishes at a     *)
(* step taken with the child slot non-empty, before any spawn, it returns  *)
(* the "already running" error.                                            *)
C2_AlwaysAlreadyRunning ==
    [][\A r \in Runs :
          (rpc[r] \in {"idle", "lock"} /\ rpc'[r] = "done" /\ child /= None)
              => rret'[r] = AlreadyRunning]_vars

(* C2, amended. A call whose workspace discovery succeeded and that finds  *)
(* the child slot non-empty returns the "already running" error; a call    *)
(* whose discovery fails returns the discovery error, whatever the slot    *)
(* holds. Either way it spawns no process, emits no event, starts no drain *)
(* task and leaves the slot unchanged, then and ever after.                *)
C2_RejectedWhileRunning ==
    /\ [](\A r \in Runs :
             rret[r] \in {AlreadyRunning, WorkspaceNotFound}
                 => /\ rpc[r] = "done"
                    /\ ~spawned[r]
                    /\ emitted[r] = <<>>
                    /\ dpc[r] = "none")
    /\ [][\A r \in Runs :
             /\ (rpc[r] = "lock" /\ rpc'[r] /= "lock" /\ child /= None)
                    => /\ rpc'[r] = "done"
                       /\ rret'[r] = AlreadyRunning
                       /\ C2_NoSideEffects(r)
             /\ (rpc[r] = "idle" /\ rpc'[r] = "done")
                    => /\ rret'[r] = WorkspaceNotFound
                       /\ C2_NoSideEffects(r)]_vars

\* A second call was turned away while the first run held the slot.
C2_Witness ==
    \E r \in Runs :
        /\ rret[r] = AlreadyRunning
        /\ child /= None
        /\ child /= Some(r)

(* C3. Cancelling when idle is a no-op: a cancel that finds the child slot *)
(* empty takes nothing, leaves the slot empty, kills nothing, emits        *)
(* nothing and returns Ok.                                                 *)
C3_CancelIdleNoop ==
    /\ [](\A k \in Cancels :
             (cpc[k] = "done" /\ ctaken[k] = None) => cret[k] = Ok)
    /\ [][\A k \in Cancels :
             /\ (cpc[k] = "idle" /\ cpc'[k] /= "idle" /\ child = None)
                    => /\ child' = None
                       /\ ctaken'[k] = None
                       /\ kills' = kills
                       /\ emitted' = emitted
             /\ (cpc[k] = "taken" /\ ctaken[k] = None /\ cpc'[k] /= "taken")
                    => /\ cpc'[k] = "done"
                       /\ cret'[k] = Ok
                       /\ child' = child
                       /\ kills' = kills
                       /\ emitted' = emitted]_vars

\* A cancel issued with nothing running has returned.
C3_Witness ==
    \E k \in Cancels :
        /\ cpc[k] = "done"
        /\ ctaken[k] = None
        /\ cret[k] = Ok
        /\ \A r \in Runs : kills[r] = 0

C5_EventShape ==
    \A r \in Runs :
        LET e == emitted[r] IN
        /\ e /= <<>> => e[1].kind = "Started"
        /\ \A i \in 2..Len(e) : e[i].kind /= "Started"
        /\ \A i \in 1..(Len(e) - 1) : ~IsTerminal(e[i])

(* C6. Under fair scheduling, every run for which run_full_test_suite      *)
(* returned Ok eventually has a Terminated or Error event emitted.         *)
C6_EventuallyTerminal ==
    \A r \in Runs : (rret[r] = Ok) ~> (TerminalCount(r) > 0)

\* A run that was cancelled after it started has emitted its terminal event.
C6_Witness ==
    \E r \in Runs :
        rret[r] = Ok /\ Cancelled(r) /\ TerminalCount(r) > 0

(* C7. The child slot is the sole source of truth: the slot holds a run's  *)
(* handle exactly when that run is active (accepted, not cancelled, its    *)
(* own terminal event not handled).                                        *)
C7_SlotIsTruth == \A r \in Runs : Active(r) <=> child = Some(r)

\* word, all upper case, occurs in text with each letter in either case
OccursAnyCase(word, text) ==
    \E i \in 1..Len(text) :
        /\ i + Len(word) - 1 <= Len(text)
        /\ \A j \in 1..Len(word) : text[i + j - 1] \in {word[j], word[j] + 32}

C8_Reference(source, message) ==
    CASE source = "Stderr" -> "Error"
      [] source = "Stdout" /\ (OccursAnyCase(FAIL, message)
                               \/ OccursAnyCase(ERROR, message)) -> "Error"
      [] source = "Stdout" /\ ~OccursAnyCase(FAIL, message)
                           /\ ~OccursAnyCase(ERROR, message)
                           /\ OccursAnyCase(WARN, message) -> "Warn"
      [] OTHER -> "Info"

(* C8. classify_level equals the reference classifier: Stderr gives Error; *)
(* for Stdout, FAIL or ERROR in any ASCII letter case gives Error, else     *)
(* WARN in any case gives Warn, else Info; with both WARN and FAIL/ERROR    *)
(* present the result is Error.                                             *)
C8_ClassifyMatchesReference ==
    clsPc = "ret" => clsOut = C8_Reference(clsSource, clsMessage)

\* A stdout line with both a warning and a failure keyword was classified.
C8_Witness ==
    /\ clsPc = "ret"
    /\ clsSource = "Stdout"
    /\ OccursAnyCase(WARN, clsMessage)
    /\ OccursAnyCase(FAIL, clsMessage)
    /\ ~contains(clsMessage, WARN)
    /\ clsOut = "Error"

\* char::encode_utf8, for the scalar values below U+10000
C9_Encode(c) ==
    IF c < 128 THEN <<c>>
    ELSE IF c < 2048 THEN <<192 + (c \div 64), 128 + (c % 64)>>
    ELSE <<224 + (c \div 4096), 128 + ((c \div 64) % 64), 128 + (c % 64)>>

RECURSIVE C9_EncodeAll(_)
C9_EncodeAll(text) ==
    IF text = <<>> THEN <<>>
    ELSE C9_Encode(text[1]) \o C9_EncodeAll(Tail(text))

\* The scalar values whose encodings use bytes of SanBytes only
C9_Chars ==
    {c \in 0..2047 : \A i \in 1..Len(C9_Encode(c)) :
                        C9_Encode(c)[i] \in SanBytes}

\* The texts a chunk is the encoding of (at most one)
C9_Texts(bytes) ==
    {t \in SeqsUpTo(C9_Chars, Len(bytes)) : C9_EncodeAll(t) = bytes}

(* C9. sanitize_line equals the reference sanitizer: a chunk that is not   *)
(* valid text, is empty, or holds only CR/LF characters yields no line;    *)
(* any other chunk yields its text up to and including its last character  *)
(* that is neither CR nor LF, so the result is never empty and never ends  *)
(* in CR or LF.                                                            *)
C9_SanitizeMatchesReference ==
    sanPc = "ret" =>
        LET texts == C9_Texts(sanIn) IN
        IF texts = {} \/ \A t \in texts : \A i \in 1..Len(t) : t[i] \in {CR, LF}
        THEN sanOut = None
        ELSE \E t \in texts : \E n \in 1..Len(t) :
                /\ t[n] \notin {CR, LF}
                /\ \A i \in (n + 1)..Len(t) : t[i] \in {CR, LF}
                /\ sanOut = Some(SubSeq(t, 1, n))

\* A line with a two-byte character, ended by more than one terminator.
C9_Witness ==
    /\ sanPc = "ret"
    /\ sanIn = <<194, 133, CR, LF>>
    /\ sanOut = Some(<<133>>)

\* d, its parent, ..., up to the root
RECURSIVE C10_Walk(_)
C10_Walk(d) ==
    IF fsParent[d] = None THEN <<d>>
    ELSE <<d>> \o C10_Walk(Unwrap(fsParent[d]))

C10_Starts ==
    (IF cwd = None THEN <<>> ELSE <<Unwrap(cwd)>>)
    \o (IF resourceParent = None THEN <<>> ELSE <<Unwrap(resourceParent)>>)

C10_AllWalks == Flatten([i \in 1..Len(C10_Starts) |-> C10_Walk(C10_Starts[i])])

C10_Reference ==
    LET w == C10_AllWalks
        hits == {i \in 1..Len(w) : w[i] \in fsPackage}
    IN  IF hits = {} THEN NotFoundError
        ELSE OkDir(w[CHOOSE i \in hits : \A j \in hits : i <= j])

(* C10. Workspace discovery terminates and returns the first directory     *)
(* holding the marker file on the upward walks of the starting directories *)
(* (in order, nearest ancestor first); it returns the not-found error      *)
(* exactly when no such directory exists. The visited set does not change  *)
(* the result.                                                             *)
C10_LocateMatchesReference ==
    /\ locPc = "done" => locResult = Some(C10_Reference)
    /\ locPc \in {"collect", "for", "loop"} => ENABLED LocateNext
    /\ locSteps <= Len(C10_AllWalks) + Len(C10_Starts) + 1

\* The second starting directory's walk ran into the first one's and was
\* skipped over; the marker was found nowhere on the walks.
C10_Witness ==
    /\ locPc = "done"
    /\ Len(candidates) = 2
    /\ candidates[1] /= candidates[2]
    /\ candidates[2] \notin {C10_Walk(candidates[1])[i] :
                                i \in 1..Len(C10_Walk(candidates[1]))}
    /\ Len(C10_Walk(candidates[2])) >= 2
    /\ C10_Walk(candidates[2])[2] = candidates[1]
    /\ fsPackage /= {}
    /\ locResult = Some(NotFoundError)


\* The payloads one received CommandEvent gives.
C11_ImageOf(ev) ==
    IF ev.kind = "Stdout"
    THEN LET line == sanitize_line(ev.data) IN
         IF line = None THEN <<>>
         ELSE <<Log(classify_level("Stdout", Unwrap(line)), Unwrap(line),
                    "Stdout")>>
    ELSE IF ev.kind = "Stderr"
    THEN LET line == sanitize_line(ev.data) IN
         IF line = None THEN <<>>
         ELSE <<Log("Error", Unwrap(line), "Stderr")>>
    ELSE IF ev.kind = "Terminated" THEN <<Terminated(ev.code)>>
    ELSE IF ev.kind = "Error" THEN <<Error(ev.data)>>
    ELSE <<>>

RECURSIVE C11_Image(_)
C11_Image(evs) ==
    IF evs = <<>> THEN <<>>
    ELSE C11_Image(SubSeq(evs, 1, Len(evs) - 1)) \o C11_ImageOf(evs[Len(evs)])

\* The received events whose arm has run to its emit.
C11_Handled(r) ==
    IF dpc[r] \in {"lock", "emit"}
    THEN SubSeq(received[r], 1, Len(received[r]) - 1)
    ELSE received[r]

\* "WARN: slow test"
C11_WarnLine ==
    <<87, 65, 82, 78, 58, 32, 115, 108, 111, 119, 32, 116, 101, 115, 116>>

(* C11. The events emitted for a run are Started followed by the image, in *)
(* delivery order, of the process events its drain task has handled: a     *)
(* chunk that sanitizes to a line gives one Log (Stdout: classified level, *)
(* Stderr: level Error), Terminated and Error give the terminal payload    *)
(* with the same code or message, blank or undecodable chunks and other    *)
(* kinds give nothing; stdout "WARN: slow test" then exit 0 gives Started, *)
(* Log{Warn, "WARN: slow test", Stdout}, Terminated{0}.                    *)
C11_EmittedIsImage ==
    \A r \in Runs :
        /\ emitted[r] =
              (IF rpc[r] = "task" \/ (rpc[r] = "done" /\ rret[r] = Ok)
               THEN <<Started>> ELSE <<>>) \o C11_Image(C11_Handled(r))
        /\ (/\ received[r] = <<Event("Stdout", ChunkWarn, None),
                                Event("Terminated", <<>>, Some(0))>>
            /\ dpc[r] \in {"recv", "ended"})
              => emitted[r] = <<Started, Log("Warn", C11_WarnLine, "Stdout"),
                                Terminated(Some(0))>>

\* The scenario has run: a stdout chunk "WARN: slow test\n", then exit 0.
C11_Witness ==
    \E r \in Runs :
        /\ received[r] = <<Event("Stdout", ChunkWarn, None),
                           Event("Terminated", <<>>, Some(0))>>
        /\ Len(emitted[r]) = 3
        /\ emitted[r][3] = Terminated(Some(0))


(* C12. A run call that fails synchronously (workspace discovery fails, or *)
(* the process cannot be spawned) returns the error, leaves the child slot *)
(* as it found it (empty, when it is the spawn that failed), emits no      *)
(* event, starts no drain task and has no process; a discovery failure is  *)
(* returned from the call's first step, before the guard and the spawn.    *)
C12_SyncFailureClean ==
    /\ [](\A r \in Runs :
            (rpc[r] = "done" /\ rret[r] \in {WorkspaceNotFound, SpawnFailed})
                => /\ emitted[r] = <<>>
                   /\ dpc[r] = "none"
                   /\ ~spawned[r] /\ stream[r] = "none"
                   /\ child /= Some(r))
    /\ [][\A r \in Runs :
            (/\ rpc[r] /= "done" /\ rpc'[r] = "done"
             /\ rret'[r] \in {WorkspaceNotFound, SpawnFailed})
                => /\ child' = child
                   /\ emitted' = emitted
                   /\ rret'[r] = SpawnFailed
                         => child' = None /\ guardHolder' = None
                   /\ rret'[r] = WorkspaceNotFound
                         => rpc[r] = "idle" /\ guardHolder' = guardHolder]_vars

\* One call has failed in discovery and another in spawn; the slot is empty
\* and nothing was emitted.
C12_Witness ==
    \E q \in Runs, r \in Runs :
        /\ rpc[q] = "done" /\ rret[q] = WorkspaceNotFound
        /\ rpc[r] = "done" /\ rret[r] = SpawnFailed
        /\ child = None
        /\ \A s \in Runs : emitted[s] = <<>>


(* C13. When a cancel has taken a handle and kill on it fails, the kill    *)
(* error is what the cancel returns, the kill step leaves the slot alone   *)
(* (the take emptied it), the slot never holds that handle again, and a    *)
(* run call that finds the slot empty afterwards passes the guard.         *)
C13_KillFailureClearsGuard ==
    /\ [](\A k \in Cancels :
            cret[k] = KillFailed
                => /\ ctaken[k] /= None
                   /\ kills[Unwrap(ctaken[k])] > 0
                   /\ child /= ctaken[k])
    /\ [][/\ \A k \in Cancels :
                (cpc[k] = "taken" /\ cpc'[k] = "done")
                    => /\ child' = child
                       /\ kills' /= kills => cret'[k] \in {Ok, KillFailed}
                       /\ kills' = kills => cret'[k] = Ok
          /\ \A r \in Runs :
                (/\ rpc[r] = "lock" /\ rpc'[r] /= "lock"
                 /\ \E k \in Cancels : cret[k] = KillFailed
                 /\ child = None)
                    => rpc'[r] = "spawn" /\ rret'[r] = rret[r]]_vars

\* The cancel of run q returned the kill error and a later run call r was
\* accepted.
C13_Witness ==
    \E k \in Cancels, q \in Runs, r \in Runs :
        /\ cret[k] = KillFailed /\ ctaken[k] = Some(q)
        /\ q < r
        /\ spawned[r] /\ rret[r] = Ok
        /\ ~Cancelled(r)


(* C14. Once the drain task of a run has handled a Terminated or an Error  *)
(* (its terminal payload is emitted), it processes nothing more: no later  *)
(* step emits an event for the run and its task takes the slot no more.    *)
C14_StopsConsuming ==
    [][\A r \in Runs :
          TerminalCount(r) > 0
              => /\ emitted'[r] = emitted[r]
                 /\ received'[r] = received[r]
                 /\ ~(dpc[r] = "lock" /\ dpc'[r] = "emit")]_vars


(* C15. The guard on the child slot is never held across I/O: the run     *)
(* call that holds the guard neither spawns a process nor emits, a cancel  *)
(* does not kill inside its take, and a drain task does not emit inside    *)
(* its take.                                                               *)
C15_NoIoUnderGuard ==
    [][/\ \A r \in Runs :
             guardHolder = Some(r)
                 => /\ ~(rpc[r] = "spawn" /\ rpc'[r] /= "spawn")
                    /\ emitted'[r] = emitted[r]
       /\ \A k \in Cancels :
             (cpc[k] = "idle" /\ cpc'[k] = "taken") => kills' = kills
       /\ \A r \in Runs :
             (dpc[r] = "lock" /\ dpc'[r] = "emit") => emitted' = emitted]_vars


(* C16. Event emission is fire-and-forget: with emits that may fail, the   *)
(* call goes from the Started emit to spawning the drain task and returns  *)
(* Ok, the drain task returns to recv after emitting a Log, the take of a  *)
(* Terminated or Error arm empties the slot before the terminal emit, and  *)
(* that emit is followed by recv, whatever the emits returned.             *)
C16_FireAndForget ==
    [][\A r \in Runs :
          /\ (rpc[r] = "emit" /\ rpc'[r] /= "emit")
                => rpc'[r] = "task" /\ rret'[r] = rret[r]
          /\ (rpc[r] = "task" /\ rpc'[r] /= "task")
                => rret'[r] = Ok /\ dpc'[r] = "recv"
          /\ (dpc[r] = "recv" /\ emitted'[r] /= emitted[r])
                => dpc'[r] = "recv"
          /\ (dpc[r] = "lock" /\ dpc'[r] /= "lock")
                => child' = None /\ dpc'[r] = "emit"
          /\ (dpc[r] = "emit" /\ dpc'[r] /= "emit")
                => dpc'[r] = "recv" /\ emitted'[r] /= emitted[r]]_vars

\* The only emit so far, that of Started for run r, has failed; the call
\* has returned Ok and the drain task is receiving.
C16_Witness ==
    \E r \in Runs :
        /\ lastEmit = "Err"
        /\ emitted[r] = <<Started>>
        /\ \A s \in Runs \ {r} : emitted[s] = <<>>
        /\ rpc[r] = "done" /\ rret[r] = Ok
        /\ dpc[r] = "recv"


\* No cancel has taken the slot and no drain task has taken it.
C17_Undisturbed ==
    /\ \A k \in Cancels : cpc[k] = "idle"
    /\ \A r \in Runs : ~TerminalHandled(r)

C18_KillAtMostOnce ==
    /\ [](\A r \in Runs :
            /\ kills[r] <= 1
            /\ kills[r] = 1
                  => /\ spawned[r]
                     /\ child /= Some(r)
                     /\ \E k \in Cancels :
                           ctaken[k] = Some(r) /\ cpc[k] = "done")
    /\ [](\A j \in Cancels, k \in Cancels :
            (j /= k /\ ctaken[j] /= None) => ctaken[j] /= ctaken[k])
    /\ [][\A k \in Cancels :
            /\ (cpc[k] = "idle" /\ cpc'[k] = "taken")
                  => /\ ctaken'[k] = child
                     /\ kills' = kills
                     /\ (\A r \in Runs : Accepted(r) => TerminalHandled(r))
                           => ctaken'[k] = None
            /\ (cpc[k] = "taken" /\ cpc'[k] = "done")
                  => kills' =
                       [r \in Runs |->
                           IF ctaken[k] = Some(r) THEN kills[r] + 1
                           ELSE kills[r]]]_vars

\* Two cancels raced on the only run r before its process ended: one took
\* its handle and killed it once, the other took nothing.
C18_Witness ==
    \E r \in Runs, j \in Cancels, k \in Cancels :
        /\ j /= k
        /\ ctaken[j] = Some(r) /\ cpc[j] = "done" /\ kills[r] = 1
        /\ ctaken[k] = None /\ cpc[k] = "done"
        /\ dpc[r] = "recv" /\ TerminalCount(r) = 0
        /\ \A q \in Runs \ {r} : rpc[q] = "idle"

=============================================================================
